---------------------------- MODULE Spec2Model ----------------------------
(***************************************************************************)
(* Model of the chi demonstration server of main.go: the Handler adapter   *)
(* (a handler that may return an error), customHandler, the FileServer     *)
(* route mounter, and main's startup sequence followed by concurrent       *)
(* request handling.                                                       *)
(*                                                                         *)
(* Strings that the code inspects character by character (URL paths,       *)
(* route patterns, redirect targets) are sequences of one-character        *)
(* strings.  Strings the code only passes along (bodies, error messages)   *)
(* are TLA+ strings.  A response body is the sequence of chunks written.   *)
(***************************************************************************)
EXTENDS Naturals, Sequences, FiniteSets, TLC

VARIABLES
    pc,          \* position of main: "start", "use", "getRoot", "methodPicture",
                 \* "fileServer", "listen", "serving", "crashed"
    middlewares, \* the router's middleware stack, in registration order
    routes,      \* the router's registrations: records (method, pattern, handler)
    mountPath,   \* the path argument of the FileServer call
    fs,          \* what <cwd>/data is on disk: "missing", "empty" or "data"
    panicMsg,    \* the panic that ended setup, "" when none
    reqs         \* the requests in flight, one per connection slot

vars == <<pc, middlewares, routes, mountPath, fs, panicMsg, reqs>>

(* Bounds of the model. *)
MaxPathLen == 3
MaxReq == 2

-----------------------------------------------------------------------------
(* package strings *)

HasPrefix(s, p) == Len(p) <= Len(s) /\ SubSeq(s, 1, Len(p)) = p

HasSuffix(s, x) == Len(x) <= Len(s) /\ SubSeq(s, Len(s) - Len(x) + 1, Len(s)) = x

TrimPrefix(s, p) == IF HasPrefix(s, p) THEN SubSeq(s, Len(p) + 1, Len(s)) ELSE s

TrimSuffix(s, x) == IF HasSuffix(s, x) THEN SubSeq(s, 1, Len(s) - Len(x)) ELSE s

ContainsAny(s, chars) == \E i \in 1..Len(s) : s[i] \in chars

(* The index of the first "/" of s, 0 when there is none. *)
IndexSlash(s) ==
    IF \E i \in 1..Len(s) : s[i] = "/"
    THEN CHOOSE i \in 1..Len(s) : s[i] = "/" /\ \A j \in 1..(i - 1) : s[j] # "/"
    ELSE 0

(* strings.Split(s, "/") *)
RECURSIVE SplitSlash(_)
SplitSlash(s) ==
    LET i == IndexSlash(s)
    IN  IF i = 0 THEN <<s>>
        ELSE <<SubSeq(s, 1, i - 1)>> \o SplitSlash(SubSeq(s, i + 1, Len(s)))

(* strings.Join(segs, "/") *)
RECURSIVE JoinSlash(_)
JoinSlash(segs) ==
    IF Len(segs) = 0 THEN <<>>
    ELSE IF Len(segs) = 1 THEN segs[1]
    ELSE segs[1] \o <<"/">> \o JoinSlash(Tail(segs))

-----------------------------------------------------------------------------
(* package path *)

(* The stack of path elements that path.Clean keeps: empty elements and    *)
(* "." are dropped, ".." removes the element before it, or is dropped at   *)
(* the root, or is kept at the start of a relative path.                   *)
RECURSIVE CleanFold(_, _, _)
CleanFold(segs, stack, rooted) ==
    IF Len(segs) = 0 THEN stack
    ELSE LET s == segs[1]
             next ==
                 IF s = <<>> \/ s = <<".">> THEN stack
                 ELSE IF s = <<".", ".">>
                      THEN IF Len(stack) > 0 /\ stack[Len(stack)] # <<".", ".">>
                           THEN SubSeq(stack, 1, Len(stack) - 1)
                           ELSE IF rooted THEN stack ELSE Append(stack, s)
                      ELSE Append(stack, s)
         IN  CleanFold(Tail(segs), next, rooted)

(* path.Clean *)
Clean(p) ==
    IF Len(p) = 0 THEN <<".">>
    ELSE LET rooted == p[1] = "/"
             kept == JoinSlash(CleanFold(SplitSlash(p), <<>>, rooted))
             out == IF rooted THEN <<"/">> \o kept ELSE kept
         IN  IF Len(out) = 0 THEN <<".">> ELSE out

(* s without its trailing slashes *)
RECURSIVE TrimSlashes(_)
TrimSlashes(s) ==
    IF Len(s) > 0 /\ s[Len(s)] = "/" THEN TrimSlashes(SubSeq(s, 1, Len(s) - 1)) ELSE s

(* path.Base *)
Base(p) ==
    IF Len(p) = 0 THEN <<".">>
    ELSE LET t == TrimSlashes(p)
         IN  IF Len(t) = 0 THEN <<"/">>
             ELSE LET segs == SplitSlash(t) IN segs[Len(segs)]

-----------------------------------------------------------------------------
(* Paths and names the program and its requests use. *)

PathRoot == <<"/">>

PathPicture == <<"/", "p", "i", "c", "t", "u", "r", "e">>

PathFiles == <<"/", "f", "i", "l", "e", "s">>

PathOther == <<"/", "o", "t", "h", "e", "r">>

IndexPage == <<"/", "i", "n", "d", "e", "x", ".", "h", "t", "m", "l">>

HelloTxt == <<"/", "h", "e", "l", "l", "o", ".", "t", "x", "t">>

Nope == <<"/", "n", "o", "p", "e">>

DirD == <<"/", "d">>

-----------------------------------------------------------------------------
(* http.ResponseWriter.  status 0: the header is not written yet.  calls   *)
(* lists, in order, who called Write or WriteHeader on this response.      *)

NewResponse == [status |-> 0, location |-> <<>>, body |-> <<>>, calls |-> <<>>]

(* w.WriteHeader(code): a second call is superfluous and changes nothing. *)
WriteHeader(w, code, by) ==
    [w EXCEPT !.status = IF @ = 0 THEN code ELSE @,
              !.calls = Append(@, by)]

(* w.Write(data): writes the header with status 200 first when it is not  *)
(* written yet, then appends data to the body.                             *)
Write(w, data, by) ==
    [w EXCEPT !.status = IF @ = 0 THEN 200 ELSE @,
              !.body = @ \o data,
              !.calls = Append(@, by)]

(* w.Header().Set("Location", url): headers set after the header is        *)
(* written are not sent.                                                   *)
SetLocation(w, url) ==
    IF w.status = 0 THEN [w EXCEPT !.location = url] ELSE w

(* What the server sends when the handler returns: a handler that wrote    *)
(* nothing gets status 200 and an empty body.                              *)
FinishResponse(w) == [w EXCEPT !.status = IF @ = 0 THEN 200 ELSE @]

(* http.Error(w, msg, code): the status, then fmt.Fprintln(w, msg), which  *)
(* writes msg and a newline in one Write.                                  *)
HttpError(w, msg, code, by) == Write(WriteHeader(w, code, by), <<msg \o "\n">>, by)

(* http.NotFound *)
NotFound(w, by) == HttpError(w, "404 page not found", 404, by)

-----------------------------------------------------------------------------
(* http.Redirect and http.RedirectHandler *)

(* url.Parse finds a host in url: it begins with exactly two slashes and   *)
(* an authority follows them.                                              *)
UrlHasHost(url) ==
    /\ HasPrefix(url, <<"/", "/">>)
    /\ Len(url) > 2
    /\ url[3] # "/"

(* path.Split(p)'s directory: p up to and including its last slash *)
RECURSIVE SplitDir(_)
SplitDir(p) ==
    IF Len(p) = 0 \/ p[Len(p)] = "/" THEN p ELSE SplitDir(SubSeq(p, 1, Len(p) - 1))

(* The Location http.Redirect sends for url: a url without a host is made  *)
(* absolute against the request path and cleaned, keeping a trailing       *)
(* slash.  (No URL of the model holds a "?".)                              *)
RedirectLocation(reqPath, url) ==
    IF UrlHasHost(url) THEN url
    ELSE LET abs == IF Len(url) = 0 \/ url[1] # "/" THEN SplitDir(reqPath) \o url ELSE url
             trailing == HasSuffix(abs, <<"/">>)
             cleaned == Clean(abs)
         IN  IF trailing /\ ~HasSuffix(cleaned, <<"/">>) THEN cleaned \o <<"/">>
             ELSE cleaned

(* http.Redirect(w, r, url, code) for a GET request: Location, the status  *)
(* and a short HTML body.                                                  *)
Redirect(w, reqPath, url, code) ==
    LET loc == RedirectLocation(reqPath, url)
    IN  Write(WriteHeader(SetLocation(w, loc), code, "redirect"),
              <<"<a href=\"">> \o loc \o <<"\">Moved Permanently</a>.\n\n">>,
              "redirect")

-----------------------------------------------------------------------------
(* http.Dir and http.FileServer *)

NoFile == [kind |-> "none", content |-> ""]

(* http.Dir(<cwd>/data).Open(name) for a clean rooted name, under each of  *)
(* the three contents of <cwd>/data the model considers.                   *)
DirOpen(disk, name) ==
    IF disk = "missing" THEN NoFile
    ELSE IF name = PathRoot THEN [kind |-> "dir", content |-> ""]
    ELSE IF disk = "empty" THEN NoFile
    ELSE IF name = HelloTxt THEN [kind |-> "file", content |-> "hi"]
    ELSE IF name = IndexPage THEN [kind |-> "file", content |-> "<index>"]
    ELSE IF name = DirD THEN [kind |-> "dir", content |-> ""]
    ELSE NoFile

(* http's localRedirect: Location is relative, status 301, no body.  (No   *)
(* request to the file routes carries a query.)                            *)
LocalRedirect(w, newPath) == WriteHeader(SetLocation(w, newPath), 301, "fileserver")

(* http.serveContent for a request without Range or conditional headers *)
ServeContent(w, content) == Write(WriteHeader(w, 200, "fileserver"), <<content>>, "fileserver")

(* http's dirList of a directory without entries, as Go 1.22 and later     *)
(* write it: four calls of fmt.Fprintf, each one Write.  (Go 1.21 and      *)
(* earlier write only the last two lines.)                                 *)
DirList(w) ==
    LET w1 == Write(w, <<"<!doctype html>\n">>, "fileserver")
        w2 == Write(w1, <<"<meta name=\"viewport\" content=\"width=device-width\">\n">>,
                    "fileserver")
        w3 == Write(w2, <<"<pre>\n">>, "fileserver")
    IN  Write(w3, <<"</pre>\n">>, "fileserver")

(* http's serveFile(w, r, fs, path.Clean(upath), true), upath being        *)
(* r.URL.Path.                                                             *)
ServeFile(w, upath, disk) ==
    LET name == Clean(upath)
        f == DirOpen(disk, name)
        last == upath[Len(upath)]
    IN  IF HasSuffix(upath, IndexPage) THEN LocalRedirect(w, <<".", "/">>)
        ELSE IF f.kind = "none" THEN NotFound(w, "fileserver")
        ELSE IF f.kind = "dir"
        THEN IF last # "/" THEN LocalRedirect(w, Base(upath) \o <<"/">>)
             ELSE LET index == DirOpen(disk, TrimSuffix(name, <<"/">>) \o IndexPage)
                  IN  IF index.kind = "file" THEN ServeContent(w, index.content)
                      ELSE DirList(w)
        ELSE IF last = "/"
        THEN IF Base(upath) \in {<<"/">>, <<".">>}
             THEN HttpError(w, "http: attempting to traverse a non-directory", 500,
                            "fileserver")
             ELSE LocalRedirect(w, <<".", ".", "/">> \o Base(upath))
        ELSE ServeContent(w, f.content)

(* http.FileServer(root).ServeHTTP: a path without a leading slash gets one *)
FileHandler(w, urlPath, disk) ==
    LET upath == IF HasPrefix(urlPath, <<"/">>) THEN urlPath ELSE <<"/">> \o urlPath
    IN  ServeFile(w, upath, disk)

(* The file handler used without http.StripPrefix *)
StripPrefixNone(prefix, w, urlPath, disk) == FileHandler(w, urlPath, disk)

(* http.StripPrefix(prefix, http.FileServer(root)).ServeHTTP: with an      *)
(* empty prefix it is the file handler itself; a path that does not begin  *)
(* with the prefix gets 404.                                               *)
StripPrefix(prefix, w, urlPath, disk) ==
    IF Len(prefix) = 0 THEN FileHandler(w, urlPath, disk)
    ELSE LET p == TrimPrefix(urlPath, prefix)
         IN  IF Len(p) < Len(urlPath) THEN FileHandler(w, p, disk)
             ELSE NotFound(w, "fileserver")

-----------------------------------------------------------------------------
(* Requests.  query lists the values of the "err" query parameter, in the  *)
(* order they appear in the URL: <<>> when the parameter is absent.        *)

Request(method, path, query) == [method |-> method, path |-> path, query |-> query]

(* r.URL.Query().Get("err"): the first value, "" when there is none *)
QueryGetErr(query) == IF Len(query) = 0 THEN "" ELSE query[1]

-----------------------------------------------------------------------------
(* Functions of type Handler.  fn "customHandler" is the program's;  a     *)
(* "stub" makes the calls listed on the response writer and returns ret:   *)
(* <<>> is nil, <<msg>> is an error with that message.                     *)

CustomHandlerFn == [fn |-> "customHandler", calls |-> <<>>, ret |-> <<>>]

Stub(calls, ret) == [fn |-> "stub", calls |-> calls, ret |-> ret]

CallWrite(data) == [op |-> "Write", code |-> 0, data |-> data]

CallWriteHeader(code) == [op |-> "WriteHeader", code |-> code, data |-> ""]

(* customHandler failing whenever the err parameter is present, even when  *)
(* it is empty.                                                            *)
customHandlerPresent(w, r) ==
    IF Len(r.query) > 0
    THEN [w |-> w, err |-> <<QueryGetErr(r.query)>>]
    ELSE [w |-> Write(w, <<"A whole bunch of messages and such">>, "wrapped"),
          err |-> <<>>]

(* customHandler keeping q in a package-level variable that the request    *)
(* of the first connection slot has set.                                   *)
customHandlerShared(w, r) ==
    LET q == QueryGetErr(reqs[1].req.query)
    IN  IF q # ""
        THEN [w |-> w, err |-> <<q>>]
        ELSE [w |-> Write(w, <<"A whole bunch of messages and such">>, "wrapped"),
              err |-> <<>>]

(* customHandler(w, r): the response writer afterwards and the error     *)
(* returned.                                                               *)
customHandler(w, r) ==
    LET q == QueryGetErr(r.query)
    IN  IF q # ""
        THEN [w |-> w, err |-> <<q>>]
        ELSE [w |-> Write(w, <<"A whole bunch of messages and such">>, "wrapped"),
              err |-> <<>>]

(* The response writer after a stub made its calls *)
RECURSIVE StubWrites(_, _)
StubWrites(w, calls) ==
    IF Len(calls) = 0 THEN w
    ELSE LET c == calls[1]
             w1 == IF c.op = "Write" THEN Write(w, <<c.data>>, "wrapped")
                   ELSE WriteHeader(w, c.code, "wrapped")
         IN  StubWrites(w1, Tail(calls))

(* h(w, r) for h of type Handler: the response writer afterwards and the   *)
(* error returned.                                                         *)
CallHandler(h, w, r) ==
    IF h.fn = "customHandler" THEN customHandler(w, r)
    ELSE [w |-> StubWrites(w, h.calls), err |-> h.ret]

-----------------------------------------------------------------------------
(* The handlers a route can hold *)

NoHandlerFn == Stub(<<>>, <<>>)

HandlerRec(kind, h, url, code, root) ==
    [kind |-> kind, h |-> h, url |-> url, code |-> code, root |-> root]

(* func(w, r) { w.Write([]byte("hello world")) } *)
HelloHandler == HandlerRec("hello", NoHandlerFn, <<>>, 0, "")

(* Handler(h) *)
AdapterHandler(h) == HandlerRec("adapter", h, <<>>, 0, "")

(* http.RedirectHandler(url, code).ServeHTTP *)
RedirectHandler(url, code) == HandlerRec("redirect", NoHandlerFn, url, code, "")

(* FileServer's closure over root *)
FilesHandler(root) == HandlerRec("files", NoHandlerFn, <<>>, 0, root)

(* The router's own handlers for a request no route answers *)
NotFoundHandler == HandlerRec("notFound", NoHandlerFn, <<>>, 0, "")

MethodNotAllowedHandler == HandlerRec("methodNotAllowed", NoHandlerFn, <<>>, 0, "")

-----------------------------------------------------------------------------
(* The chi router *)

Route(method, pattern, handler) ==
    [method |-> method, pattern |-> pattern, handler |-> handler]

NoPanic(rt) == [panic |-> "", routes |-> rt]

Panic(msg, rt) == [panic |-> msg, routes |-> rt]

(* The Go string of a sequence of characters *)
RECURSIVE GoString(_)
GoString(chars) ==
    IF Len(chars) = 0 THEN "" ELSE chars[1] \o GoString(Tail(chars))

(* Mux.Method / Mux.Get: a pattern must begin with "/", and "*" must be    *)
(* its last character; registering a method and pattern again replaces     *)
(* the handler.                                                            *)
MuxHandle(rt, method, pattern, handler) ==
    IF Len(pattern) = 0 \/ pattern[1] # "/"
    THEN Panic("chi: routing pattern must begin with '/' in '" \o GoString(pattern) \o "'",
               rt)
    ELSE IF \E i \in 1..(Len(pattern) - 1) : pattern[i] = "*"
    THEN Panic("chi: wildcard '*' must be the last value in a route. "
               \o "trim trailing text or use a '{param}' instead", rt)
    ELSE NoPanic({x \in rt : ~(x.method = method /\ x.pattern = pattern)}
                 \cup {Route(method, pattern, handler)})

(* Whether a registered pattern matches a request path: a pattern ending   *)
(* in "*" matches every path that begins with what precedes the "*".       *)
PatternMatches(pattern, path) ==
    IF HasSuffix(pattern, <<"*">>)
    THEN HasPrefix(path, TrimSuffix(pattern, <<"*">>))
    ELSE pattern = path

(* Mux.routeHTTP: among the routes of the request's method whose pattern   *)
(* matches, a static pattern wins over a wildcard and a longer wildcard    *)
(* over a shorter; a path only routes of other methods match gets 405, a   *)
(* path no route matches gets 404.                                         *)
MuxRoute(rt, r) ==
    LET hits == {x \in rt : PatternMatches(x.pattern, r.path)}
        mine == {x \in hits : x.method = r.method}
        Better(x, y) ==
            \/ ~HasSuffix(x.pattern, <<"*">>) /\ HasSuffix(y.pattern, <<"*">>)
            \/ /\ HasSuffix(x.pattern, <<"*">>) = HasSuffix(y.pattern, <<"*">>)
               /\ Len(x.pattern) > Len(y.pattern)
    IN  IF mine # {}
        THEN CHOOSE x \in mine : \A y \in mine \ {x} : Better(x, y)
        ELSE IF hits # {} THEN Route(r.method, <<>>, MethodNotAllowedHandler)
        ELSE Route(r.method, <<>>, NotFoundHandler)

(* chi's Context.RoutePattern() for a route registered on the top router:  *)
(* the pattern, without a trailing "/" unless it is "/".                   *)
RoutePattern(pattern) ==
    IF pattern = PathRoot THEN pattern
    ELSE TrimSuffix(TrimSuffix(pattern, <<"/", "/">>), <<"/">>)

-----------------------------------------------------------------------------
(* FileServer *)

(* The last character read without a panic, as strings.HasSuffix would *)
LastCharNoPanic(path) ==
    [panic |-> FALSE, ch |-> IF Len(path) = 0 THEN "" ELSE path[Len(path)]]

(* path[len(path)-1]: the index is out of range for the empty string *)
LastChar(path) ==
    IF Len(path) = 0 THEN [panic |-> TRUE, ch |-> ""]
    ELSE [panic |-> FALSE, ch |-> path[Len(path)]]

(* The check of the mount path forgetting the wildcard character *)
HasURLParamsNoStar(path) == ContainsAny(path, {"{", "}"})

(* strings.ContainsAny(path, "{}*") *)
HasURLParams(path) == ContainsAny(path, {"{", "}", "*"})

(* The wildcard appended without the slash line 79 adds *)
WildcardPatternNoSlash(path, redirect) == path \o <<"*">>

(* The route pattern of the wildcard route for a mount path that passed    *)
(* the checks.                                                             *)
WildcardPattern(path, redirect) ==
    (IF redirect THEN path \o <<"/">> ELSE path) \o <<"*">>

(* FileServer(r, path, root): the panic it ends with ("" when it returns)  *)
(* and the router's routes afterwards.                                     *)
FileServer(rt, path, root) ==
    IF HasURLParams(path)
    THEN Panic("FileServer does not permit any URL parameters.", rt)
    ELSE IF path # PathRoot /\ LastChar(path).panic
    THEN Panic("runtime error: index out of range [-1]", rt)
    ELSE LET redirect == path # PathRoot /\ LastChar(path).ch # "/"
             first == IF redirect
                      THEN MuxHandle(rt, "GET", path,
                                     RedirectHandler(path \o <<"/">>, 301))
                      ELSE NoPanic(rt)
         IN  IF first.panic # "" THEN first
             ELSE MuxHandle(first.routes, "GET", WildcardPattern(path, redirect),
                            FilesHandler(root))

-----------------------------------------------------------------------------
(* One request in flight: the request, the route the router matched, the   *)
(* handler's locals (pathPrefix, err), the response writer, and where the  *)
(* handler stands: "idle" (no request), "routed", "errHeader", "errBody",  *)
(* "serve", "done".                                                        *)

NoRequest == Request("", <<>>, <<>>)

IdleReq ==
    [pc |-> "idle", req |-> NoRequest, handler |-> NotFoundHandler,
     pattern |-> <<>>, pathPrefix |-> <<>>, err |-> <<>>, w |-> NewResponse]

(* The router passes the request through the middlewares (none of them     *)
(* writes to the response) to the handler of the matching route.           *)
Routed(rt, r) ==
    LET m == MuxRoute(rt, r)
    IN  [IdleReq EXCEPT !.pc = "routed", !.req = r,
                        !.handler = m.handler, !.pattern = m.pattern]

(* The handler returns: the server completes the response. *)
Return(rs, w) == [rs EXCEPT !.pc = "done", !.w = FinishResponse(w)]

(* GET / *)
ServeHello(rs) == Return(rs, Write(rs.w, <<"hello world">>, "hello"))

(* Handler.ServeHTTP with the test of err inverted *)
ServeHTTPCallInverted(rs) ==
    LET res == CallHandler(rs.handler.h, rs.w, rs.req)
    IN  IF res.err = <<>>
        THEN [rs EXCEPT !.pc = "errHeader", !.err = res.err, !.w = res.w]
        ELSE [rs EXCEPT !.pc = "done", !.w = FinishResponse(res.w)]

(* Handler.ServeHTTP, line 17: err := h(w, r) *)
ServeHTTPCall(rs) ==
    LET res == CallHandler(rs.handler.h, rs.w, rs.req)
    IN  IF res.err # <<>>
        THEN [rs EXCEPT !.pc = "errHeader", !.err = res.err, !.w = res.w]
        ELSE Return(rs, res.w)

(* Handler.ServeHTTP, line 19: w.WriteHeader(503) *)
ServeHTTPWriteHeader(rs) ==
    [rs EXCEPT !.pc = "errBody", !.w = WriteHeader(rs.w, 503, "adapter")]

(* Handler.ServeHTTP writing the error's message to the client *)
ServeHTTPWriteError(rs) ==
    [rs EXCEPT !.pc = "done",
               !.w = FinishResponse(Write(rs.w, <<rs.err[1]>>, "adapter"))]

(* Handler.ServeHTTP, line 20: w.Write([]byte("bad")) *)
ServeHTTPWrite(rs) == Return(rs, Write(rs.w, <<"bad">>, "adapter"))

(* http.RedirectHandler(url, code).ServeHTTP *)
ServeRedirect(rs) ==
    Return(rs, Redirect(rs.w, rs.req.path, rs.handler.url, rs.handler.code))

(* FileServer's closure, lines 84-85 *)
FilesPathPrefix(rs) ==
    [rs EXCEPT !.pc = "serve",
               !.pathPrefix = TrimSuffix(RoutePattern(rs.pattern), <<"/", "*">>)]

(* FileServer's closure, lines 86-87 *)
FilesServe(rs, disk) ==
    Return(rs, StripPrefix(rs.pathPrefix, rs.w, rs.req.path, disk))

(* The router's 404 *)
ServeNotFound(rs) == Return(rs, NotFound(rs.w, "router"))

(* The router's 405 *)
ServeMethodNotAllowed(rs) ==
    Return(rs, Write(WriteHeader(rs.w, 405, "router"), <<>>, "router"))

(* The next step of a request's handler *)
Step(rs, disk) ==
    IF rs.pc = "errHeader" THEN ServeHTTPWriteHeader(rs)
    ELSE IF rs.pc = "errBody" THEN ServeHTTPWrite(rs)
    ELSE IF rs.pc = "serve" THEN FilesServe(rs, disk)
    ELSE IF rs.handler.kind = "hello" THEN ServeHello(rs)
    ELSE IF rs.handler.kind = "adapter" THEN ServeHTTPCall(rs)
    ELSE IF rs.handler.kind = "redirect" THEN ServeRedirect(rs)
    ELSE IF rs.handler.kind = "files" THEN FilesPathPrefix(rs)
    ELSE IF rs.handler.kind = "methodNotAllowed" THEN ServeMethodNotAllowed(rs)
    ELSE ServeNotFound(rs)

(* The handler run from the routed request to its return, nothing else    *)
(* running.                                                                *)
RECURSIVE Run(_, _)
Run(rs, disk) == IF rs.pc = "done" THEN rs ELSE Run(Step(rs, disk), disk)

(* The response a request gets when it is handled alone *)
ServeAlone(rt, r, disk) == Run(Routed(rt, r), disk).w

-----------------------------------------------------------------------------
(* Inputs *)

Slots == 1..MaxReq

Disks == {"missing", "empty", "data"}

(* The requests sent to the running server *)
ErrQueries == {<<>>, <<"">>, <<"x">>, <<"y">>, <<"", "x">>}

FilePaths ==
    {PathFiles, PathFiles \o <<"/">>, PathFiles \o HelloTxt, PathFiles \o IndexPage,
     PathFiles \o Nope, PathFiles \o DirD, PathFiles \o DirD \o <<"/">>,
     PathFiles \o DirD \o IndexPage, PathFiles \o <<"/">> \o HelloTxt,
     PathFiles \o HelloTxt \o <<"/">>}

MainRequests ==
    {Request("GET", PathPicture, q) : q \in ErrQueries}
    \cup {Request("GET", p, <<>>) : p \in {PathRoot, PathOther} \cup FilePaths}
    \cup {Request("POST", PathPicture, <<>>)}

(* The mount paths FileServer is called with: every string of at most     *)
(* MaxPathLen characters of the alphabet, and "/files".                    *)
Alphabet == {"/", "f", ".", "{", "}", "*"}

RECURSIVE StringsUpTo(_)
StringsUpTo(n) ==
    IF n = 0 THEN {<<>>}
    ELSE LET shorter == StringsUpTo(n - 1)
         IN  shorter \cup {Append(x, c) : x \in shorter, c \in Alphabet}

MountPaths == StringsUpTo(MaxPathLen) \cup {PathFiles}

-----------------------------------------------------------------------------
(* main *)

Init ==
    /\ pc = "start"
    /\ middlewares = <<>>
    /\ routes = {}
    /\ mountPath = PathFiles
    /\ fs \in Disks
    /\ panicMsg = ""
    /\ reqs = [i \in Slots |-> IdleReq]

(* line 25: r := chi.NewRouter() *)
NewRouter ==
    /\ pc = "start"
    /\ pc' = "use"
    /\ middlewares' = <<>>
    /\ routes' = {}
    /\ UNCHANGED <<mountPath, fs, panicMsg, reqs>>

(* lines 28-34: r.Use(RequestID), r.Use(Logger), r.Use(Recoverer) *)
Use ==
    /\ pc = "use"
    /\ middlewares' = Append(middlewares,
                             <<"RequestID", "Logger", "Recoverer">>[Len(middlewares) + 1])
    /\ pc' = IF Len(middlewares) = 2 THEN "getRoot" ELSE "use"
    /\ UNCHANGED <<routes, mountPath, fs, panicMsg, reqs>>

(* A registration of main: the panic of the router ends the process *)
Register(res, next) ==
    /\ routes' = res.routes
    /\ panicMsg' = res.panic
    /\ pc' = IF res.panic # "" THEN "crashed" ELSE next

(* lines 42-44: r.Get("/", ...) *)
GetRoot ==
    /\ pc = "getRoot"
    /\ Register(MuxHandle(routes, "GET", PathRoot, HelloHandler), "methodPicture")
    /\ UNCHANGED <<middlewares, mountPath, fs, reqs>>

(* line 47: r.Method("GET", "/picture", Handler(customHandler)) *)
MethodPicture ==
    /\ pc = "methodPicture"
    /\ Register(MuxHandle(routes, "GET", PathPicture, AdapterHandler(CustomHandlerFn)),
                "fileServer")
    /\ UNCHANGED <<middlewares, mountPath, fs, reqs>>

(* FileServer refusing a root directory that does not exist *)
CallFileServerStatRoot ==
    /\ pc = "fileServer"
    /\ IF fs = "missing"
       THEN Register(Panic("FileServer: root does not exist", routes), "listen")
       ELSE Register(FileServer(routes, mountPath, "data"), "listen")
    /\ UNCHANGED <<middlewares, mountPath, fs, reqs>>

(* lines 51-53: FileServer(r, path, http.Dir(<cwd>/data)) *)
CallFileServer ==
    /\ pc = "fileServer"
    /\ Register(FileServer(routes, mountPath, "data"), "listen")
    /\ UNCHANGED <<middlewares, mountPath, fs, reqs>>

(* line 55: http.ListenAndServe(":3333", r) starts serving *)
ListenAndServe ==
    /\ pc = "listen"
    /\ pc' = "serving"
    /\ UNCHANGED <<middlewares, routes, mountPath, fs, panicMsg, reqs>>

-----------------------------------------------------------------------------
(* Requests: the server runs each request's handler in its own goroutine. *)

(* A request that registers a route for its own path on arrival *)
AcceptRegistering(i, r) ==
    /\ pc = "serving"
    /\ reqs[i].pc = "idle"
    /\ reqs' = [reqs EXCEPT ![i] = Routed(routes, r)]
    /\ routes' = routes \cup {Route(r.method, r.path, NotFoundHandler)}
    /\ UNCHANGED <<pc, middlewares, mountPath, fs, panicMsg>>

(* A request arrives on a free slot and the router picks its handler *)
Accept(i, r) ==
    /\ pc = "serving"
    /\ reqs[i].pc = "idle"
    /\ reqs' = [reqs EXCEPT ![i] = Routed(routes, r)]
    /\ UNCHANGED <<pc, middlewares, routes, mountPath, fs, panicMsg>>

(* The handler of request i takes its next step, when it is at position    *)
(* at with a handler of the kind given.                                    *)
HandlerStep(i, at, kind) ==
    /\ pc = "serving"
    /\ reqs[i].pc = at
    /\ reqs[i].handler.kind = kind
    /\ reqs' = [reqs EXCEPT ![i] = Step(reqs[i], fs)]
    /\ UNCHANGED <<pc, middlewares, routes, mountPath, fs, panicMsg>>

Hello(i) == HandlerStep(i, "routed", "hello")

HandlerCall(i) == HandlerStep(i, "routed", "adapter")

HandlerWriteHeader(i) == HandlerStep(i, "errHeader", "adapter")

HandlerWrite(i) == HandlerStep(i, "errBody", "adapter")

RedirectToSlash(i) == HandlerStep(i, "routed", "redirect")

FilesPrefix(i) == HandlerStep(i, "routed", "files")

FilesFileServer(i) == HandlerStep(i, "serve", "files")

RouterNotFound(i) == HandlerStep(i, "routed", "notFound")

RouterMethodNotAllowed(i) == HandlerStep(i, "routed", "methodNotAllowed")

(* The response is sent and the connection takes the next request *)
Close(i) ==
    /\ reqs[i].pc = "done"
    /\ reqs' = [reqs EXCEPT ![i] = IdleReq]
    /\ UNCHANGED <<pc, middlewares, routes, mountPath, fs, panicMsg>>

Next ==
    \/ NewRouter
    \/ Use
    \/ GetRoot
    \/ MethodPicture
    \/ CallFileServer
    \/ ListenAndServe
    \/ \E i \in Slots, r \in MainRequests : Accept(i, r)
    \/ \E i \in Slots : Hello(i)
    \/ \E i \in Slots : HandlerCall(i)
    \/ \E i \in Slots : HandlerWriteHeader(i)
    \/ \E i \in Slots : HandlerWrite(i)
    \/ \E i \in Slots : RedirectToSlash(i)
    \/ \E i \in Slots : FilesPrefix(i)
    \/ \E i \in Slots : FilesFileServer(i)
    \/ \E i \in Slots : RouterNotFound(i)
    \/ \E i \in Slots : RouterMethodNotAllowed(i)
    \/ \E i \in Slots : Close(i)

Spec == Init /\ [][Next]_vars

-----------------------------------------------------------------------------
(* FileServer called with any mount path.  The router is as main leaves it *)
(* before line 51; afterwards the server is probed, one request at a time, *)
(* with requests at and under the mount path.                              *)

MainMiddlewares == <<"RequestID", "Logger", "Recoverer">>

RoutesBeforeFileServer ==
    {Route("GET", PathRoot, HelloHandler),
     Route("GET", PathPicture, AdapterHandler(CustomHandlerFn))}

InitFS ==
    /\ pc = "fileServer"
    /\ middlewares = MainMiddlewares
    /\ routes = RoutesBeforeFileServer
    /\ mountPath \in MountPaths
    /\ fs \in Disks
    /\ panicMsg = ""
    /\ reqs = [i \in Slots |-> IdleReq]

ProbePaths(p) ==
    {x \in {PathRoot, p, p \o <<"/">>, p \o HelloTxt, p \o Tail(HelloTxt)} :
        HasPrefix(x, <<"/">>)}

ProbeRequests(p) == {Request("GET", x, <<>>) : x \in ProbePaths(p)}

NextFS ==
    \/ CallFileServer
    \/ ListenAndServe
    \/ \E r \in ProbeRequests(mountPath) : Accept(1, r)
    \/ Hello(1)
    \/ RedirectToSlash(1)
    \/ FilesPrefix(1)
    \/ FilesFileServer(1)
    \/ RouterNotFound(1)
    \/ Close(1)

SpecFS == InitFS /\ [][NextFS]_vars

-----------------------------------------------------------------------------
(* Handler(h) for any function h of type Handler, mounted at /picture.     *)

StubCalls ==
    {<<>>, <<CallWrite("partial")>>, <<CallWriteHeader(500)>>,
     <<CallWriteHeader(500), CallWrite("partial")>>}

WrappedFns ==
    {CustomHandlerFn} \cup {Stub(c, e) : c \in StubCalls, e \in {<<>>, <<"boom">>}}

InitHandler ==
    /\ pc = "serving"
    /\ middlewares = MainMiddlewares
    /\ \E h \in WrappedFns : routes = {Route("GET", PathPicture, AdapterHandler(h))}
    /\ mountPath = PathFiles
    /\ fs \in Disks
    /\ panicMsg = ""
    /\ reqs = [i \in Slots |-> IdleReq]

PictureRequests == {Request("GET", PathPicture, q) : q \in ErrQueries}

NextHandler ==
    \/ \E i \in Slots, r \in PictureRequests : Accept(i, r)
    \/ \E i \in Slots : HandlerCall(i)
    \/ \E i \in Slots : HandlerWriteHeader(i)
    \/ \E i \in Slots : HandlerWrite(i)
    \/ \E i \in Slots : Close(i)

SpecHandler == InitHandler /\ [][NextHandler]_vars

-----------------------------------------------------------------------------
(* Properties *)

(* The route table main builds *)
MainRoutes ==
    RoutesBeforeFileServer
    \cup {Route("GET", PathFiles, RedirectHandler(PathFiles \o <<"/">>, 301)),
          Route("GET", PathFiles \o <<"/", "*">>, FilesHandler("data"))}

Done(i) == reqs[i].pc = "done"

(* Who called Write or WriteHeader on a response *)
Writers(w) == {w.calls[k] : k \in 1..Len(w.calls)}

HasMetaChar(p) == \E k \in 1..Len(p) : p[k] \in {"{", "}", "*"}

(* ---- C1 ---- *)

(* The wrapped function wrote and the adapter did not, or the adapter's    *)
(* error path wrote 503 "bad" and the wrapped function did not; never both. *)
OneWriter(i) ==
    /\ ~({"wrapped", "adapter"} \subseteq Writers(reqs[i].w))
    /\ Done(i) =>
          \/ Writers(reqs[i].w) = {"wrapped"}
          \/ /\ Writers(reqs[i].w) = {"adapter"}
             /\ reqs[i].w.status = 503
             /\ reqs[i].w.body = <<"bad">>

(* C1 as stated: for every wrapped function and every request, one call   *)
(* of Handler.ServeHTTP has exactly one writer of the response, the        *)
(* wrapped function or the adapter's error path (503, "bad"), never both.  *)
C1_OneWriterAnyFunction ==
    \A i \in Slots : reqs[i].handler.kind = "adapter" => OneWriter(i)

(* A wrapped function that writes to the response when it returns nil and  *)
(* writes nothing when it returns an error, as customHandler does.         *)
WritesExactlyOnSuccess(h) ==
    \/ h.fn = "customHandler"
    \/ h.fn = "stub" /\ ((Len(h.calls) > 0) <=> (h.ret = <<>>))

(* C1 amended: for customHandler, and for every wrapped function that      *)
(* writes exactly when it returns nil, one call of Handler.ServeHTTP has    *)
(* exactly one writer of the response: the wrapped function, or the        *)
(* adapter's error path with status 503 and body "bad"; never both.        *)
C1_OneWriter ==
    \A i \in Slots :
        (reqs[i].handler.kind = "adapter" /\ WritesExactlyOnSuccess(reqs[i].handler.h))
            => OneWriter(i)

(* Both outcomes at once: customHandler answered by the adapter's error    *)
(* path on one connection and by itself on another.                        *)
C1_Witness ==
    \E i, j \in Slots :
        /\ Done(i) /\ Done(j)
        /\ reqs[i].handler.h = CustomHandlerFn /\ reqs[j].handler.h = CustomHandlerFn
        /\ reqs[i].handler.kind = "adapter" /\ reqs[j].handler.kind = "adapter"
        /\ Writers(reqs[i].w) = {"adapter"}
        /\ Writers(reqs[j].w) = {"wrapped"}

(* ---- C2 ---- *)

(* A completed GET /picture whose err parameter is not empty *)
PictureWithErr(i) ==
    /\ Done(i)
    /\ reqs[i].req.method = "GET"
    /\ reqs[i].req.path = PathPicture
    /\ Len(reqs[i].req.query) > 0
    /\ reqs[i].req.query[1] # ""

(* C2: every GET /picture with a non-empty err gets status 503 and body    *)
(* "bad", and two such requests get the same response whatever their err.  *)
C2_ErrorIs503Bad ==
    \A i \in Slots :
        PictureWithErr(i) =>
            /\ reqs[i].w.status = 503
            /\ reqs[i].w.body = <<"bad">>
            /\ \A j \in Slots : PictureWithErr(j) => reqs[j].w = reqs[i].w

C2_Witness ==
    \E i, j \in Slots :
        /\ PictureWithErr(i) /\ PictureWithErr(j)
        /\ reqs[i].req.query = <<"x">>
        /\ reqs[j].req.query = <<"y">>

(* ---- C3 ---- *)

(* A GET /picture without err, or with an empty err *)
PictureWithoutErr(i) ==
    /\ reqs[i].pc # "idle"
    /\ reqs[i].req.method = "GET"
    /\ reqs[i].req.path = PathPicture
    /\ (Len(reqs[i].req.query) = 0 \/ reqs[i].req.query[1] = "")

(* C3: a GET /picture without err or with an empty err never enters the    *)
(* adapter's error path, and completes with status 200, the body "A whole  *)
(* bunch of messages and such", written by customHandler alone.            *)
C3_SuccessIs200 ==
    \A i \in Slots :
        PictureWithoutErr(i) =>
            /\ reqs[i].pc \in {"routed", "done"}
            /\ Done(i) =>
                  /\ reqs[i].w.status = 200
                  /\ reqs[i].w.body = <<"A whole bunch of messages and such">>
                  /\ reqs[i].w.calls = <<"wrapped">>

C3_Witness ==
    \E i, j \in Slots :
        /\ PictureWithoutErr(i) /\ Done(i) /\ reqs[i].req.query = <<>>
        /\ PictureWithoutErr(j) /\ Done(j) /\ reqs[j].req.query = <<"">>

(* ---- C4 ---- *)

(* C4: for a mount path that holds "{", "}" or "*", the call of FileServer *)
(* ends in its panic, with the route table as it was before the call, and  *)
(* the panic happens during setup: no request was ever accepted.           *)
C4_MetaCharAborts ==
    (HasMetaChar(mountPath) /\ pc # "fileServer") =>
        /\ pc = "crashed"
        /\ panicMsg = "FileServer does not permit any URL parameters."
        /\ routes = RoutesBeforeFileServer
        /\ \A i \in Slots : reqs[i].pc = "idle"

C4_Witness ==
    /\ pc = "crashed"
    /\ mountPath = <<"/", "f", "*">>

(* ---- C5 ---- *)

(* The mount path gets the redirect route *)
WantsRedirect(p) == p # PathRoot /\ p[Len(p)] # "/"

(* The routes FileServer adds for mount path p *)
RoutesOfMount(p) ==
    IF WantsRedirect(p)
    THEN {Route("GET", p, RedirectHandler(p \o <<"/">>, 301)),
          Route("GET", p \o <<"/", "*">>, FilesHandler("data"))}
    ELSE {Route("GET", p \o <<"*">>, FilesHandler("data"))}

(* A completed GET of the mount path itself, answered by its redirect route *)
RedirectedAtMount(i) ==
    /\ Done(i)
    /\ reqs[i].req.path = mountPath
    /\ WantsRedirect(mountPath)

PlainPath(p) ==
    LET segs == SplitSlash(Tail(p))
    IN  \A k \in 1..Len(segs) : segs[k] \notin {<<>>, <<".">>, <<".", ".">>}

(* A path that begins with exactly two slashes and then a name: read as a  *)
(* URL, what follows the two slashes is a host.                            *)
HostForm(p) == HasPrefix(p, <<"/", "/">>) /\ Len(p) > 2 /\ p[3] # "/"

(* path.Clean of a rooted url that ends in a slash, the slash kept *)
CleanKeepingSlash(url) ==
    IF Clean(url) = <<"/">> THEN <<"/">> ELSE Clean(url) \o <<"/">>

(* The pattern of the first route FileServer registers for mount path p *)
FirstPattern(p) == IF WantsRedirect(p) THEN p ELSE p \o <<"*">>

C5_WitnessHost ==
    /\ mountPath = <<"/", "/", "f">>
    /\ RedirectedAtMount(1)
    /\ reqs[1].w.location = <<"/", "/", "f", "/">>

C5_WitnessCleaned ==
    /\ mountPath = <<"/", ".">>
    /\ RedirectedAtMount(1)
    /\ reqs[1].w.location = <<"/">>

C5_WitnessNoSlash ==
    /\ mountPath = <<"f", "/">>
    /\ pc = "crashed"
    /\ panicMsg = "chi: routing pattern must begin with '/' in 'f/*'"

InFiles(i) == reqs[i].handler.kind = "files" /\ reqs[i].pc \in {"serve", "done"}

(* C6 as stated: the path looked up is the request path without the        *)
(* prefix, the prefix being the matched pattern without its "/*"; when     *)
(* that path names a regular file, the response is 200 with its content.   *)
C6_FileServedAnyPath ==
    \A i \in Slots :
        InFiles(i) =>
            /\ reqs[i].pathPrefix = TrimSuffix(reqs[i].pattern, <<"/", "*">>)
            /\ LET f == DirOpen(fs, TrimPrefix(reqs[i].req.path, reqs[i].pathPrefix))
               IN  (Done(i) /\ f.kind = "file") =>
                       /\ reqs[i].w.status = 200
                       /\ reqs[i].w.body = <<f.content>>

(* C6 amended: the prefix is the matched pattern /files/* without its      *)
(* "/*", and the path looked up is the request path without that prefix,   *)
(* cleaned as path.Clean does; when it names a regular file and the        *)
(* request path ends neither in "/index.html" nor in "/", the response is  *)
(* 200 with the file's content.                                            *)
C6_FileServed ==
    \A i \in Slots :
        InFiles(i) =>
            /\ reqs[i].pattern = PathFiles \o <<"/", "*">>
            /\ reqs[i].pathPrefix = PathFiles
            /\ LET f == DirOpen(fs, Clean(TrimPrefix(reqs[i].req.path, PathFiles)))
               IN  (/\ Done(i)
                    /\ f.kind = "file"
                    /\ ~HasSuffix(reqs[i].req.path, IndexPage)
                    /\ ~HasSuffix(reqs[i].req.path, <<"/">>)) =>
                       /\ reqs[i].w.status = 200
                       /\ reqs[i].w.body = <<f.content>>

C6_Witness ==
    \E i, j \in Slots :
        /\ Done(i) /\ reqs[i].req.path = PathFiles \o HelloTxt
        /\ fs = "data"
        /\ reqs[i].w.status = 200 /\ reqs[i].w.body = <<"hi">>
        /\ Done(j) /\ reqs[j].req.path = PathFiles \o <<"/">> \o HelloTxt
        /\ reqs[j].w.body = <<"hi">>

(* ---- C7 ---- *)

(* A completed request of the wildcard route whose path names nothing      *)
(* under the root.                                                         *)
NamesNothing(i) ==
    /\ Done(i)
    /\ reqs[i].handler.kind = "files"
    /\ DirOpen(fs, Clean(TrimPrefix(reqs[i].req.path, PathFiles))).kind = "none"

(* With ./data missing, setup does not fail and registers every route *)
StartsWithoutData ==
    fs = "missing" => (pc # "crashed" /\ (pc = "serving" => routes = MainRoutes))

(* C7 as stated: a request under /files/ whose path names nothing gets     *)
(* 404, and a missing ./data shows only as such 404 responses.             *)
C7_Missing404AnyPath ==
    /\ StartsWithoutData
    /\ \A i \in Slots : NamesNothing(i) => reqs[i].w.status = 404

(* C7 amended: a request under /files/ whose path names nothing under the  *)
(* root and does not end in "/index.html" gets 404; with ./data missing,   *)
(* setup still succeeds, every route is registered, and these requests get *)
(* 404.                                                                    *)
C7_Missing404 ==
    /\ StartsWithoutData
    /\ \A i \in Slots :
          (NamesNothing(i) /\ ~HasSuffix(reqs[i].req.path, IndexPage))
              => reqs[i].w.status = 404

C7_Witness ==
    \E i \in Slots :
        /\ fs = "missing"
        /\ pc = "serving"
        /\ NamesNothing(i)
        /\ reqs[i].req.path = PathFiles \o HelloTxt
        /\ reqs[i].w.status = 404

(* ---- C8 ---- *)

(* C8: no request is accepted before listening starts; from then on the    *)
(* route table is the one main built, and no step changes it.              *)
C8_RoutesFixed ==
    /\ [](pc = "serving" => routes = MainRoutes)
    /\ [](pc # "serving" => \A i \in Slots : reqs[i].pc = "idle")
    /\ [][pc = "serving" => (routes' = routes /\ pc' = "serving")]_vars

C8_Witness ==
    /\ pc = "serving"
    /\ routes = MainRoutes
    /\ \A i \in Slots : Done(i)
    /\ reqs[1].handler.kind = "files"

(* ---- C9 ---- *)

(* C9: whatever else is in flight, a completed request has the response    *)
(* it gets when it is handled alone.                                       *)
C9_NoInterference ==
    \A i \in Slots : Done(i) => reqs[i].w = ServeAlone(routes, reqs[i].req, fs)

(* A request completed while another was in the middle of its handler *)
C9_Witness ==
    \E i, j \in Slots :
        /\ Done(i)
        /\ reqs[i].handler.kind = "adapter"
        /\ reqs[i].w.status = 503
        /\ reqs[j].pc = "errBody"
        /\ reqs[j].req # reqs[i].req

(* ---- C10 ---- *)

(* C10: for the empty mount path, the call of FileServer ends in the       *)
(* runtime panic of the index expression, with the route table as it was   *)
(* before the call.                                                        *)
C10_EmptyPathPanics ==
    (mountPath = <<>> /\ pc # "fileServer") =>
        /\ pc = "crashed"
        /\ panicMsg = "runtime error: index out of range [-1]"
        /\ routes = RoutesBeforeFileServer

C10_Witness ==
    /\ mountPath = <<>>
    /\ pc = "crashed"
    /\ panicMsg = "runtime error: index out of range [-1]"

=============================================================================
